---- MODULE Spec2Model ----
(***************************************************************************)
(* The product-catalog schema of core/products/models.py as a state        *)
(* machine.  The state is the content of the ten tables the models          *)
(* declare; the operations are the persistence operations (create, update,  *)
(* delete) on each model, with the declared constraints (unique=True, the   *)
(* conditional UniqueConstraint, mandatory and optional foreign keys) and   *)
(* the declared on_delete rules (CASCADE, PROTECT, SET_NULL) applied the    *)
(* way the ORM and the database apply them: a write that violates a         *)
(* constraint is rejected as a whole, a delete first collects everything    *)
(* the on_delete rules reach and then either raises or applies it all.      *)
(*                                                                         *)
(* Columns that carry no constraint and no relation (description,           *)
(* is_active, price, stock_quantity, order, weight, dates, image name/url,  *)
(* timestamps) do not influence any operation's outcome and are left out    *)
(* of the rows.                                                             *)
(***************************************************************************)
EXTENDS Integers, FiniteSets, Sequences, TLC

VARIABLES
    db,      \* the database: one field per model, each a function pk -> row
    last,    \* the most recent call and its outcome, as the caller sees it
    txn      \* per concurrent writer: the INSERT it issued, and its outcome once executed

vars == <<db, last, txn>>

----------------------------------------------------------------------------
(* Bounds of the model *)

\* primary keys of every table are drawn from 1..MaxId
MaxId == 2
\* under Spec, which exercises every table, the database holds at most
\* MaxRows rows at once
MaxRows == 5

Ids == 1..MaxId

\* the null reference of a nullable foreign key; an id no row has
NULL == 0

\* values of the character columns, of the sku column, and the writers
Names == {"a", "b"}
Skus == {"u1", "u2"}
NoSku == "none"
Writers == {"w1", "w2"}

\* outcomes of a call
OK == "ok"
UniquenessViolation == "UniquenessViolation"
ReferentialIntegrityError == "ReferentialIntegrityError"
ProtectedReferenceError == "ProtectedReferenceError"
NotNullViolation == "NotNullViolation"

----------------------------------------------------------------------------
(* Tables as functions pk -> row *)

Put(t, id, row) == [i \in DOMAIN t \cup {id} |-> IF i = id THEN row ELSE t[i]]

Remove(t, S) == [i \in DOMAIN t \ S |-> t[i]]

\* the rows of t whose foreign key column f references a row of S
Referring(t, f, S) == {i \in DOMAIN t : t[i][f] \in S}

\* SET_NULL: the column f of the rows that reference a row of S is cleared
SetNull(t, f, S) ==
    [i \in DOMAIN t |-> IF t[i][f] \in S THEN [t[i] EXCEPT ![f] = NULL] ELSE t[i]]

Empty == [i \in {} |-> NULL]

\* the primary key an INSERT into t gets: the least key no row of t has
\* (keys are opaque; which free key is taken decides nothing)
IsNewId(t, id) == id \notin DOMAIN t /\ \A j \in Ids \ DOMAIN t : id <= j

TableNames ==
    {"attribute", "attribute_value", "category", "seasonal_event", "product_type",
     "product", "product_product_type", "product_line", "product_line_attribute",
     "product_image"}

Rows(t) == Cardinality(DOMAIN t)

TotalRows(d) ==
    Rows(d.attribute) + Rows(d.attribute_value) + Rows(d.category)
    + Rows(d.seasonal_event) + Rows(d.product_type) + Rows(d.product)
    + Rows(d.product_product_type) + Rows(d.product_line)
    + Rows(d.product_line_attribute) + Rows(d.product_image)

\* there is room for one more row
Room == TotalRows(db) < MaxRows

NoTxn == [state |-> "idle"]

Init ==
    /\ db = [n \in TableNames |-> Empty]
    /\ last = [op |-> "none", result |-> OK]
    /\ txn = [w \in Writers |-> NoTxn]

Call(op, id, row, res) == [op |-> op, id |-> id, row |-> row, result |-> res]

----------------------------------------------------------------------------
(* Constraints *)

\* unique=True on column f: no other row holds the value
UniqueOK(t, id, row, f) == \A j \in DOMAIN t \ {id} : t[j][f] # row[f]

\* a mandatory foreign key resolves to a row of t
Resolves(t, ref) == ref \in DOMAIN t

\* a foreign key declared null=True is null or resolves
ResolvesOrNull(t, ref) == ref = NULL \/ ref \in DOMAIN t

----------------------------------------------------------------------------
(* What the database answers to an INSERT or UPDATE of row `row` under     *)
(* primary key `id` in database d.  A unique index is checked when the row  *)
(* is written, a foreign key when the statement completes, so a row that    *)
(* breaks both is reported as a uniqueness violation.                       *)

AttributeCheck(d, id, row) == OK

AttributeValueCheck(d, id, row) ==
    IF ~Resolves(d.attribute, row.attribute) THEN ReferentialIntegrityError ELSE OK

\* Category.parent references Category itself: the row being written is a
\* row the reference can resolve to
CategoryCheck(d, id, row) ==
    IF ~UniqueOK(d.category, id, row, "name") \/ ~UniqueOK(d.category, id, row, "slug")
    THEN UniquenessViolation
    ELSE IF ~Resolves(Put(d.category, id, row), row.parent)
    THEN ReferentialIntegrityError
    ELSE OK

SeasonalEventCheck(d, id, row) ==
    IF ~UniqueOK(d.seasonal_event, id, row, "name") THEN UniquenessViolation ELSE OK

ProductTypeCheck(d, id, row) ==
    IF ~Resolves(Put(d.product_type, id, row), row.parent)
    THEN ReferentialIntegrityError
    ELSE OK

\* unique=True left off Product.name
ProductCheckNameNotUnique(d, id, row) ==
    IF ~UniqueOK(d.product, id, row, "pid") \/ ~UniqueOK(d.product, id, row, "slug")
    THEN UniquenessViolation
    ELSE IF \/ ~ResolvesOrNull(d.category, row.category)
            \/ ~ResolvesOrNull(d.seasonal_event, row.seasonal_event)
    THEN ReferentialIntegrityError
    ELSE OK

ProductCheck(d, id, row) ==
    IF \/ ~UniqueOK(d.product, id, row, "pid")
       \/ ~UniqueOK(d.product, id, row, "slug")
       \/ ~UniqueOK(d.product, id, row, "name")
    THEN UniquenessViolation
    ELSE IF \/ ~ResolvesOrNull(d.category, row.category)
            \/ ~ResolvesOrNull(d.seasonal_event, row.seasonal_event)
    THEN ReferentialIntegrityError
    ELSE OK

ProductProductTypeCheck(d, id, row) ==
    IF ~Resolves(d.product, row.product) \/ ~Resolves(d.product_type, row.product_type)
    THEN ReferentialIntegrityError
    ELSE OK

ProductLineCheck(d, id, row) ==
    IF row.sku = NoSku THEN NotNullViolation
    ELSE IF ~UniqueOK(d.product_line, id, row, "sku") THEN UniquenessViolation
    ELSE IF ~Resolves(d.product, row.product) THEN ReferentialIntegrityError
    ELSE OK

ProductLineAttributeCheck(d, id, row) ==
    IF ~Resolves(d.attribute_value, row.value) \/ ~Resolves(d.product_line, row.product_line)
    THEN ReferentialIntegrityError
    ELSE OK

\* the constraint left out of Meta.constraints
no_default_image_constraint(t, id, row) == TRUE

\* the constraint without its condition: a plain unique index on product_line
unique_image_per_product_line(t, id, row) ==
    \A j \in DOMAIN t \ {id} : t[j].product_line # row.product_line

\* UniqueConstraint(fields=["product_line"], condition=Q(default_image=True)):
\* the index holds only the rows with default_image = true
unique_default_image_per_product_line(t, id, row) ==
    row.default_image =>
        \A j \in DOMAIN t \ {id} :
            ~(t[j].default_image /\ t[j].product_line = row.product_line)

ProductImageCheck(d, id, row) ==
    IF ~unique_default_image_per_product_line(d.product_image, id, row)
    THEN UniquenessViolation
    ELSE IF ~Resolves(d.product_line, row.product_line) THEN ReferentialIntegrityError
    ELSE OK

\* a write is all or nothing: the row is stored only when the answer is OK
Apply(d, table, id, row, res) ==
    IF res = OK THEN [d EXCEPT ![table] = Put(@, id, row)] ELSE d

----------------------------------------------------------------------------
(* Create and update, one pair per model.  A create takes the primary key   *)
(* the table generates next; an update rewrites the row of an existing key. *)

CreateAttribute(id, row) ==
    /\ IsNewId(db.attribute, id)
    /\ LET res == AttributeCheck(db, id, row)
       IN /\ db' = Apply(db, "attribute", id, row, res)
          /\ last' = Call("CreateAttribute", id, row, res)
    /\ UNCHANGED txn

CreateAttributeValue(id, row) ==
    /\ IsNewId(db.attribute_value, id)
    /\ LET res == AttributeValueCheck(db, id, row)
       IN /\ db' = Apply(db, "attribute_value", id, row, res)
          /\ last' = Call("CreateAttributeValue", id, row, res)
    /\ UNCHANGED txn

UpdateAttributeValue(id, row) ==
    /\ id \in DOMAIN db.attribute_value
    /\ LET res == AttributeValueCheck(db, id, row)
       IN /\ db' = Apply(db, "attribute_value", id, row, res)
          /\ last' = Call("UpdateAttributeValue", id, row, res)
    /\ UNCHANGED txn

CreateCategory(id, row) ==
    /\ IsNewId(db.category, id)
    /\ LET res == CategoryCheck(db, id, row)
       IN /\ db' = Apply(db, "category", id, row, res)
          /\ last' = Call("CreateCategory", id, row, res)
    /\ UNCHANGED txn

UpdateCategory(id, row) ==
    /\ id \in DOMAIN db.category
    /\ LET res == CategoryCheck(db, id, row)
       IN /\ db' = Apply(db, "category", id, row, res)
          /\ last' = Call("UpdateCategory", id, row, res)
    /\ UNCHANGED txn

CreateSeasonalEvent(id, row) ==
    /\ IsNewId(db.seasonal_event, id)
    /\ LET res == SeasonalEventCheck(db, id, row)
       IN /\ db' = Apply(db, "seasonal_event", id, row, res)
          /\ last' = Call("CreateSeasonalEvent", id, row, res)
    /\ UNCHANGED txn

UpdateSeasonalEvent(id, row) ==
    /\ id \in DOMAIN db.seasonal_event
    /\ LET res == SeasonalEventCheck(db, id, row)
       IN /\ db' = Apply(db, "seasonal_event", id, row, res)
          /\ last' = Call("UpdateSeasonalEvent", id, row, res)
    /\ UNCHANGED txn

CreateProductType(id, row) ==
    /\ IsNewId(db.product_type, id)
    /\ LET res == ProductTypeCheck(db, id, row)
       IN /\ db' = Apply(db, "product_type", id, row, res)
          /\ last' = Call("CreateProductType", id, row, res)
    /\ UNCHANGED txn

UpdateProductType(id, row) ==
    /\ id \in DOMAIN db.product_type
    /\ LET res == ProductTypeCheck(db, id, row)
       IN /\ db' = Apply(db, "product_type", id, row, res)
          /\ last' = Call("UpdateProductType", id, row, res)
    /\ UNCHANGED txn

CreateProduct(id, row) ==
    /\ IsNewId(db.product, id)
    /\ LET res == ProductCheck(db, id, row)
       IN /\ db' = Apply(db, "product", id, row, res)
          /\ last' = Call("CreateProduct", id, row, res)
    /\ UNCHANGED txn

UpdateProduct(id, row) ==
    /\ id \in DOMAIN db.product
    /\ LET res == ProductCheck(db, id, row)
       IN /\ db' = Apply(db, "product", id, row, res)
          /\ last' = Call("UpdateProduct", id, row, res)
    /\ UNCHANGED txn

CreateProductProductType(id, row) ==
    /\ IsNewId(db.product_product_type, id)
    /\ LET res == ProductProductTypeCheck(db, id, row)
       IN /\ db' = Apply(db, "product_product_type", id, row, res)
          /\ last' = Call("CreateProductProductType", id, row, res)
    /\ UNCHANGED txn

UpdateProductProductType(id, row) ==
    /\ id \in DOMAIN db.product_product_type
    /\ LET res == ProductProductTypeCheck(db, id, row)
       IN /\ db' = Apply(db, "product_product_type", id, row, res)
          /\ last' = Call("UpdateProductProductType", id, row, res)
    /\ UNCHANGED txn

CreateProductLine(id, row) ==
    /\ IsNewId(db.product_line, id)
    /\ LET res == ProductLineCheck(db, id, row)
       IN /\ db' = Apply(db, "product_line", id, row, res)
          /\ last' = Call("CreateProductLine", id, row, res)
    /\ UNCHANGED txn

\* no sku supplied: the column's default, uuid4(), draws one
CreateProductLineDefaultSku(id, prod) ==
    /\ IsNewId(db.product_line, id)
    /\ \E u \in Skus :
        LET row == [sku |-> u, product |-> prod]
            res == ProductLineCheck(db, id, row)
        IN /\ db' = Apply(db, "product_line", id, row, res)
           /\ last' = Call("CreateProductLineDefaultSku", id, row, res)
    /\ UNCHANGED txn

UpdateProductLine(id, row) ==
    /\ id \in DOMAIN db.product_line
    /\ LET res == ProductLineCheck(db, id, row)
       IN /\ db' = Apply(db, "product_line", id, row, res)
          /\ last' = Call("UpdateProductLine", id, row, res)
    /\ UNCHANGED txn

CreateProductLineAttribute(id, row) ==
    /\ IsNewId(db.product_line_attribute, id)
    /\ LET res == ProductLineAttributeCheck(db, id, row)
       IN /\ db' = Apply(db, "product_line_attribute", id, row, res)
          /\ last' = Call("CreateProductLineAttribute", id, row, res)
    /\ UNCHANGED txn

UpdateProductLineAttribute(id, row) ==
    /\ id \in DOMAIN db.product_line_attribute
    /\ LET res == ProductLineAttributeCheck(db, id, row)
       IN /\ db' = Apply(db, "product_line_attribute", id, row, res)
          /\ last' = Call("UpdateProductLineAttribute", id, row, res)
    /\ UNCHANGED txn

CreateProductImage(id, row) ==
    /\ IsNewId(db.product_image, id)
    /\ LET res == ProductImageCheck(db, id, row)
       IN /\ db' = Apply(db, "product_image", id, row, res)
          /\ last' = Call("CreateProductImage", id, row, res)
    /\ UNCHANGED txn

UpdateProductImage(id, row) ==
    /\ id \in DOMAIN db.product_image
    /\ LET res == ProductImageCheck(db, id, row)
       IN /\ db' = Apply(db, "product_image", id, row, res)
          /\ last' = Call("UpdateProductImage", id, row, res)
    /\ UNCHANGED txn

----------------------------------------------------------------------------
(* Delete.  The ORM first collects what the on_delete rules of the foreign  *)
(* keys that reference the row reach: CASCADE collects the referring rows   *)
(* (and, in turn, what references them), SET_NULL schedules the referring   *)
(* column to be cleared, PROTECT raises when a referring row exists.  Only  *)
(* when nothing was raised are the scheduled updates and deletes applied,   *)
(* in one transaction.                                                      *)

\* delete() answers with the number of rows it deleted
DeleteCall(op, id, res, d) ==
    [op |-> op, id |-> id, result |-> res, deleted |-> TotalRows(db) - TotalRows(d)]

\* ProductLineAttribute.value with on_delete=DO_NOTHING
AttributeValueCascadeStopsShort(d, vals) ==
    [d EXCEPT !.attribute_value = Remove(@, vals)]

\* AttributeValue.attribute CASCADE, ProductLineAttribute.value CASCADE
AttributeValueCascade(d, vals) ==
    [d EXCEPT !.attribute_value = Remove(@, vals),
              !.product_line_attribute = Remove(@, Referring(@, "value", vals))]

AttributeCascade(d, a) ==
    [AttributeValueCascade(d, Referring(d.attribute_value, "attribute", {a}))
        EXCEPT !.attribute = Remove(@, {a})]

DeleteAttribute(id) ==
    /\ id \in DOMAIN db.attribute
    /\ LET d == AttributeCascade(db, id)
       IN /\ db' = d
          /\ last' = DeleteCall("DeleteAttribute", id, OK, d)
    /\ UNCHANGED txn

DeleteAttributeValue(id) ==
    /\ id \in DOMAIN db.attribute_value
    /\ LET d == AttributeValueCascade(db, {id})
       IN /\ db' = d
          /\ last' = DeleteCall("DeleteAttributeValue", id, OK, d)
    /\ UNCHANGED txn

\* a foreign key whose on_delete rule blocks nothing
NothingProtects(d, id) == {}

\* Category.parent PROTECT: the rows that block the delete of category c
CategoryProtectedBy(d, c) == Referring(d.category, "parent", {c})

\* Product.category with on_delete=CASCADE
CategoryDeleteCascade(d, c) ==
    [d EXCEPT !.category = Remove(@, {c}),
              !.product = Remove(@, Referring(@, "category", {c}))]

\* Product.category SET_NULL
CategoryDelete(d, c) ==
    [d EXCEPT !.category = Remove(@, {c}),
              !.product = SetNull(@, "category", {c})]

DeleteCategory(id) ==
    /\ id \in DOMAIN db.category
    /\ LET blocked == CategoryProtectedBy(db, id) # {}
           d == IF blocked THEN db ELSE CategoryDelete(db, id)
       IN /\ db' = d
          /\ last' = DeleteCall("DeleteCategory", id,
                                IF blocked THEN ProtectedReferenceError ELSE OK, d)
    /\ UNCHANGED txn

\* Product.seasonal_event with on_delete=DO_NOTHING
SeasonalEventDeleteDoNothing(d, e) == [d EXCEPT !.seasonal_event = Remove(@, {e})]

\* Product.seasonal_event SET_NULL
SeasonalEventDelete(d, e) ==
    [d EXCEPT !.seasonal_event = Remove(@, {e}),
              !.product = SetNull(@, "seasonal_event", {e})]

DeleteSeasonalEvent(id) ==
    /\ id \in DOMAIN db.seasonal_event
    /\ LET d == SeasonalEventDelete(db, id)
       IN /\ db' = d
          /\ last' = DeleteCall("DeleteSeasonalEvent", id, OK, d)
    /\ UNCHANGED txn

\* ProductType.parent CASCADE: S with everything below it in the parent
\* relation (the collector visits each row once, so a cycle ends the walk)
RECURSIVE Subtree(_, _)
Subtree(t, S) ==
    LET more == S \cup Referring(t, "parent", S)
    IN IF more = S THEN S ELSE Subtree(t, more)

\* ProductProductType.product_type CASCADE
ProductTypeCascade(d, pt) ==
    LET gone == Subtree(d.product_type, {pt})
    IN [d EXCEPT !.product_type = Remove(@, gone),
                 !.product_product_type = Remove(@, Referring(@, "product_type", gone))]

DeleteProductType(id) ==
    /\ id \in DOMAIN db.product_type
    /\ LET d == ProductTypeCascade(db, id)
       IN /\ db' = d
          /\ last' = DeleteCall("DeleteProductType", id, OK, d)
    /\ UNCHANGED txn

\* ProductLine.product PROTECT: the rows that block the delete of product p
ProductProtectedBy(d, p) == Referring(d.product_line, "product", {p})

\* ProductProductType.product CASCADE
ProductCascade(d, p) ==
    [d EXCEPT !.product = Remove(@, {p}),
              !.product_product_type = Remove(@, Referring(@, "product", {p}))]

DeleteProduct(id) ==
    /\ id \in DOMAIN db.product
    /\ LET blocked == ProductProtectedBy(db, id) # {}
           d == IF blocked THEN db ELSE ProductCascade(db, id)
       IN /\ db' = d
          /\ last' = DeleteCall("DeleteProduct", id,
                                IF blocked THEN ProtectedReferenceError ELSE OK, d)
    /\ UNCHANGED txn

DeleteProductProductType(id) ==
    /\ id \in DOMAIN db.product_product_type
    /\ LET d == [db EXCEPT !.product_product_type = Remove(@, {id})]
       IN /\ db' = d
          /\ last' = DeleteCall("DeleteProductProductType", id, OK, d)
    /\ UNCHANGED txn

\* ProductLineAttribute.product_line CASCADE, ProductImage.product_line CASCADE
ProductLineCascade(d, l) ==
    [d EXCEPT !.product_line = Remove(@, {l}),
              !.product_line_attribute = Remove(@, Referring(@, "product_line", {l})),
              !.product_image = Remove(@, Referring(@, "product_line", {l}))]

DeleteProductLine(id) ==
    /\ id \in DOMAIN db.product_line
    /\ LET d == ProductLineCascade(db, id)
       IN /\ db' = d
          /\ last' = DeleteCall("DeleteProductLine", id, OK, d)
    /\ UNCHANGED txn

DeleteProductLineAttribute(id) ==
    /\ id \in DOMAIN db.product_line_attribute
    /\ LET d == [db EXCEPT !.product_line_attribute = Remove(@, {id})]
       IN /\ db' = d
          /\ last' = DeleteCall("DeleteProductLineAttribute", id, OK, d)
    /\ UNCHANGED txn

DeleteProductImage(id) ==
    /\ id \in DOMAIN db.product_image
    /\ LET d == [db EXCEPT !.product_image = Remove(@, {id})]
       IN /\ db' = d
          /\ last' = DeleteCall("DeleteProductImage", id, OK, d)
    /\ UNCHANGED txn

----------------------------------------------------------------------------
(* Inputs *)

ProductLineRows == [sku : Skus, product : Ids]

ProductImageRows == [product_line : Ids, default_image : BOOLEAN]

\* a reference a caller may pass: a key, or none
Refs == Ids \cup {NULL}

CategoryRows == [name : Names, slug : Names, parent : Refs]

SeasonalEventRows == [name : Names]

AttributeRows == [name : {"a"}]

AttributeValueRows == [value : {"a"}, attribute : Refs]

ProductTypeRows == [name : {"a"}, parent : Refs]

ProductLineAttributeRows == [value : Refs, product_line : Refs]

ProductProductTypeRows == [product : Refs, product_type : Refs]

\* one product, with no category and no seasonal event
OneProductRows ==
    {[pid |-> "a", slug |-> "a", name |-> "a", category |-> NULL, seasonal_event |-> NULL]}

OneProductLineRows == [sku : {"u1"}, product : Refs]

\* categories told apart by name and slug together, under any parent
NamedCategoryRows == {[name |-> n, slug |-> n, parent |-> r] : n \in Names, r \in Refs}

OneSeasonalEventRows == [name : {"a"}]

\* one product, in any category and seasonal event
ReferringProductRows ==
    [pid : {"a"}, slug : {"a"}, name : {"a"}, category : Refs, seasonal_event : Refs]

\* products that differ in each of the three unique columns
UniqueProductRows ==
    [pid : Names, slug : Names, name : Names, category : {NULL}, seasonal_event : {NULL}]

\* product lines with an sku the caller supplies, possibly none
SkuProductLineRows == [sku : Skus \cup {NoSku}, product : Ids]

----------------------------------------------------------------------------
(* Product lines and their images *)

NextImage ==
    \/ \E id \in Ids, row \in OneProductRows : CreateProduct(id, row)
    \/ \E id \in Ids, row \in ProductLineRows : CreateProductLine(id, row)
    \/ \E id \in Ids : DeleteProductLine(id)
    \/ \E id \in Ids, row \in ProductImageRows : CreateProductImage(id, row)
    \/ \E id \in Ids, row \in ProductImageRows : UpdateProductImage(id, row)
    \/ \E id \in Ids : DeleteProductImage(id)

SpecImage == Init /\ [][NextImage]_vars

\* the images of product line l flagged as its default image
DefaultImages(d, l) ==
    {i \in DOMAIN d.product_image :
        d.product_image[i].product_line = l /\ d.product_image[i].default_image}

\* C1: in every reachable state each product line has at most one image
\* whose default_image is true
C1_AtMostOneDefaultImage ==
    \A l \in Ids : Cardinality(DefaultImages(db, l)) <= 1

\* a product line holds two images, one of them its default, and the write
\* that would have made the second one a default as well was rejected
C1_Witness ==
    /\ last.op \in {"CreateProductImage", "UpdateProductImage"}
    /\ last.result = UniquenessViolation
    /\ \E l \in Ids :
        /\ Cardinality(DefaultImages(db, l)) = 1
        /\ Cardinality(Referring(db.product_image, "product_line", {l})) = 2

\* the step is a write (insert or update) of a product image
ImageWrite == last'.op \in {"CreateProductImage", "UpdateProductImage"}

\* before the write, an image other than the written one is the default
\* image of the product line the written row names
OtherDefaultExists ==
    \E j \in DOMAIN db.product_image \ {last'.id} :
        /\ db.product_image[j].default_image
        /\ db.product_image[j].product_line = last'.row.product_line

\* C2: a write of an image with default_image = true is rejected with
\* UniquenessViolation, and changes no row, whenever another image of the
\* same product line is already its default; no other image write is
\* rejected with UniquenessViolation (a non-default image never is)
C2_DefaultImageWriteRejected ==
    [][ImageWrite =>
          /\ (last'.row.default_image /\ OtherDefaultExists) =>
                (last'.result = UniquenessViolation /\ db' = db)
          /\ last'.result = UniquenessViolation =>
                (last'.row.default_image /\ OtherDefaultExists)
          /\ ~last'.row.default_image /\ Resolves(db.product_line, last'.row.product_line) =>
                (last'.result = OK /\ db'.product_image[last'.id] = last'.row)
       ]_vars

\* a default image was moved to a product line that has a default image
\* already and the update was rejected, while that product line also holds
\* nothing that stops further non-default images
C2_Witness ==
    /\ last.op = "UpdateProductImage"
    /\ last.result = UniquenessViolation
    /\ last.id \in DOMAIN db.product_image
    /\ db.product_image[last.id].default_image
    /\ db.product_image[last.id].product_line # last.row.product_line
    /\ DefaultImages(db, last.row.product_line) # {}

----------------------------------------------------------------------------
(* The unique columns *)

\* the unique columns of one table do not see the other tables: the rows
\* of one table (product lines with the products they belong to) are
\* exercised at a time
Only(S) == \A t \in TableNames \ S : db[t] = Empty

NextUnique ==
    \/ \E id \in Ids, row \in CategoryRows :
        Only({"category"}) /\ CreateCategory(id, row)
    \/ \E id \in Ids, row \in CategoryRows : UpdateCategory(id, row)
    \/ \E id \in Ids : DeleteCategory(id)
    \/ \E id \in Ids, row \in SeasonalEventRows :
        Only({"seasonal_event"}) /\ CreateSeasonalEvent(id, row)
    \/ \E id \in Ids, row \in SeasonalEventRows : UpdateSeasonalEvent(id, row)
    \/ \E id \in Ids : DeleteSeasonalEvent(id)
    \/ \E id \in Ids, row \in UniqueProductRows :
        Only({"product", "product_line"}) /\ CreateProduct(id, row)
    \/ \E id \in Ids, row \in UniqueProductRows : UpdateProduct(id, row)
    \/ \E id \in Ids : DeleteProduct(id)
    \/ \E id \in Ids, row \in SkuProductLineRows :
        Only({"product", "product_line"}) /\ CreateProductLine(id, row)
    \/ \E id \in Ids, prod \in Ids :
        Only({"product", "product_line"}) /\ CreateProductLineDefaultSku(id, prod)
    \/ \E id \in Ids, row \in SkuProductLineRows : UpdateProductLine(id, row)
    \/ \E id \in Ids : DeleteProductLine(id)

SpecUnique == Init /\ [][NextUnique]_vars

\* the columns declared unique=True, per table
UniqueColumns ==
    [attribute |-> {}, attribute_value |-> {},
     category |-> {"name", "slug"},
     seasonal_event |-> {"name"},
     product_type |-> {},
     product |-> {"pid", "slug", "name"},
     product_product_type |-> {},
     product_line |-> {"sku"},
     product_line_attribute |-> {}, product_image |-> {}]

\* the table a create or update call writes
WrittenTable ==
    [CreateCategory |-> "category", UpdateCategory |-> "category",
     CreateSeasonalEvent |-> "seasonal_event", UpdateSeasonalEvent |-> "seasonal_event",
     CreateProduct |-> "product", UpdateProduct |-> "product",
     CreateProductLine |-> "product_line", CreateProductLineDefaultSku |-> "product_line",
     UpdateProductLine |-> "product_line"]

\* no two distinct rows of table t share a value of a unique column
NoDuplicate(d, t) ==
    \A f \in UniqueColumns[t] : \A i, j \in DOMAIN d[t] :
        i # j => d[t][i][f] # d[t][j][f]

\* row, written under key id, would share a unique value with another row of t
Collides(d, t, id, row) ==
    \E f \in UniqueColumns[t] : \E j \in DOMAIN d[t] \ {id} : d[t][j][f] = row[f]

UniqueWriteRejected ==
    last'.op \in DOMAIN WrittenTable =>
        LET t == WrittenTable[last'.op]
        IN /\ Collides(db, t, last'.id, last'.row) =>
                (last'.result = UniquenessViolation /\ db' = db)
           /\ last'.result = UniquenessViolation => Collides(db, t, last'.id, last'.row)

\* C3: in every reachable state no two rows of a table share a value of a
\* unique column (Product.pid, slug, name; Category.name, slug;
\* SeasonalEvent.name; ProductLine.sku, which is never null, generated or
\* not), and a create or update that would make two rows share one is
\* rejected with UniquenessViolation and changes nothing
C3_UniqueColumns ==
    /\ [](/\ \A t \in DOMAIN UniqueColumns : NoDuplicate(db, t)
          /\ \A l \in DOMAIN db.product_line : db.product_line[l].sku \in Skus)
    /\ [][UniqueWriteRejected]_vars

\* two products and a product line whose sku the system generated exist,
\* and an update that would have given one product a unique value of the
\* other was rejected
C3_Witness ==
    /\ last.op = "UpdateProduct"
    /\ last.result = UniquenessViolation
    /\ Cardinality(DOMAIN db.product) = 2
    /\ DOMAIN db.product_line # {}

----------------------------------------------------------------------------
(* Every table and every foreign key *)

\* the tables that hold a row
Populated == {t \in TableNames : db[t] # Empty}

\* Groups of tables that hold, for every foreign key, both its ends and, for
\* every delete, all the tables its on_delete rules reach.  The rows of one
\* group are exercised at a time.
Groups ==
    {{"attribute", "attribute_value", "product", "product_line",
      "product_line_attribute", "product_image"},
     {"category", "seasonal_event", "product", "product_line"},
     {"product_type", "product", "product_product_type", "product_line"}}

\* a row of table t may be added: the populated tables stay within a group
Fits(t) == \E G \in Groups : Populated \cup {t} \subseteq G

Next ==
    \/ Room /\ Fits("attribute") /\ \E id \in Ids, row \in AttributeRows : CreateAttribute(id, row)
    \/ \E id \in Ids : DeleteAttribute(id)
    \/ Room /\ Fits("attribute_value") /\ \E id \in Ids, row \in AttributeValueRows : CreateAttributeValue(id, row)
    \/ \E id \in Ids, row \in AttributeValueRows : UpdateAttributeValue(id, row)
    \/ \E id \in Ids : DeleteAttributeValue(id)
    \/ Room /\ Fits("category") /\ \E id \in Ids, row \in NamedCategoryRows : CreateCategory(id, row)
    \/ \E id \in Ids, row \in NamedCategoryRows : UpdateCategory(id, row)
    \/ \E id \in Ids : DeleteCategory(id)
    \/ Room /\ Fits("seasonal_event") /\ \E id \in Ids, row \in OneSeasonalEventRows : CreateSeasonalEvent(id, row)
    \/ \E id \in Ids : DeleteSeasonalEvent(id)
    \/ Room /\ Fits("product_type") /\ \E id \in Ids, row \in ProductTypeRows : CreateProductType(id, row)
    \/ \E id \in Ids, row \in ProductTypeRows : UpdateProductType(id, row)
    \/ \E id \in Ids : DeleteProductType(id)
    \/ Room /\ Fits("product") /\ \E id \in Ids, row \in ReferringProductRows : CreateProduct(id, row)
    \/ \E id \in Ids, row \in ReferringProductRows : UpdateProduct(id, row)
    \/ \E id \in Ids : DeleteProduct(id)
    \/ Room /\ Fits("product_product_type") /\ \E id \in Ids, row \in ProductProductTypeRows : CreateProductProductType(id, row)
    \/ \E id \in Ids, row \in ProductProductTypeRows : UpdateProductProductType(id, row)
    \/ \E id \in Ids : DeleteProductProductType(id)
    \/ Room /\ Fits("product_line") /\ \E id \in Ids, row \in OneProductLineRows : CreateProductLine(id, row)
    \/ \E id \in Ids, row \in OneProductLineRows : UpdateProductLine(id, row)
    \/ \E id \in Ids : DeleteProductLine(id)
    \/ Room /\ Fits("product_line_attribute") /\ \E id \in Ids, row \in ProductLineAttributeRows : CreateProductLineAttribute(id, row)
    \/ \E id \in Ids, row \in ProductLineAttributeRows : UpdateProductLineAttribute(id, row)
    \/ \E id \in Ids : DeleteProductLineAttribute(id)
    \/ Room /\ Fits("product_image") /\ \E id \in Ids, row \in ProductImageRows : CreateProductImage(id, row)
    \/ \E id \in Ids, row \in ProductImageRows : UpdateProductImage(id, row)
    \/ \E id \in Ids : DeleteProductImage(id)

Spec == Init /\ [][Next]_vars

\* the foreign keys: <<table, column, referenced table>>
MandatoryForeignKeys ==
    {<<"attribute_value", "attribute", "attribute">>,
     <<"category", "parent", "category">>,
     <<"product_type", "parent", "product_type">>,
     <<"product_line", "product", "product">>,
     <<"product_product_type", "product", "product">>,
     <<"product_product_type", "product_type", "product_type">>,
     <<"product_line_attribute", "value", "attribute_value">>,
     <<"product_line_attribute", "product_line", "product_line">>,
     <<"product_image", "product_line", "product_line">>}

OptionalForeignKeys ==
    {<<"product", "category", "category">>,
     <<"product", "seasonal_event", "seasonal_event">>}

ReferentialIntegrity(d) ==
    /\ \A fk \in MandatoryForeignKeys : \A i \in DOMAIN d[fk[1]] :
        d[fk[1]][i][fk[2]] \in DOMAIN d[fk[3]]
    /\ \A fk \in OptionalForeignKeys : \A i \in DOMAIN d[fk[1]] :
        d[fk[1]][i][fk[2]] = NULL \/ d[fk[1]][i][fk[2]] \in DOMAIN d[fk[3]]

\* the table a create call inserts into
CreatedTable ==
    [CreateAttributeValue |-> "attribute_value", CreateCategory |-> "category",
     CreateProductType |-> "product_type", CreateProductLine |-> "product_line",
     CreateProductProductType |-> "product_product_type",
     CreateProductLineAttribute |-> "product_line_attribute",
     CreateProductImage |-> "product_image"]

\* a mandatory foreign key of row, inserted into t under key id, names no
\* row: neither a stored one nor, for a reference to t itself, the row
Dangling(d, t, id, row) ==
    \E fk \in MandatoryForeignKeys :
        /\ fk[1] = t
        /\ row[fk[2]] \notin DOMAIN d[fk[3]]
        /\ ~(fk[3] = t /\ row[fk[2]] = id)

DanglingCreateRejected ==
    (last'.op \in DOMAIN CreatedTable
        /\ Dangling(db, CreatedTable[last'.op], last'.id, last'.row)) =>
            /\ last'.result # OK
            /\ db' = db
            /\ ~Collides(db, CreatedTable[last'.op], last'.id, last'.row) =>
                   last'.result = ReferentialIntegrityError

----------------------------------------------------------------------------
(* Deletes under PROTECT and SET_NULL *)

\* C4: deleting a product that has a product line fails with
\* ProtectedReferenceError and changes nothing: the product, its lines and
\* its ProductProductType rows all remain
C4_ProductDeleteProtected ==
    [][(/\ last'.op = "DeleteProduct"
        /\ \E l \in DOMAIN db.product_line : db.product_line[l].product = last'.id)
         => (last'.result = ProtectedReferenceError /\ db' = db)]_vars

\* a product with a product line and a ProductProductType row was asked to
\* be deleted, and all three are still there
C4_Witness ==
    /\ last.op = "DeleteProduct"
    /\ last.result = ProtectedReferenceError
    /\ last.id \in DOMAIN db.product
    /\ Referring(db.product_line, "product", {last.id}) # {}
    /\ Referring(db.product_product_type, "product", {last.id}) # {}

\* C5: deleting a category that some category has as its parent fails with
\* ProtectedReferenceError and changes nothing: parent and child remain and
\* no product loses its category
C5_CategoryDeleteProtected ==
    [][(/\ last'.op = "DeleteCategory"
        /\ \E k \in DOMAIN db.category : db.category[k].parent = last'.id)
         => (last'.result = ProtectedReferenceError /\ db' = db)]_vars

\* a category with a child category and a product in it was asked to be
\* deleted; parent, child and the product's category are still there
C5_Witness ==
    /\ last.op = "DeleteCategory"
    /\ last.result = ProtectedReferenceError
    /\ last.id \in DOMAIN db.category
    /\ \E k \in DOMAIN db.category \ {last.id} : db.category[k].parent = last.id
    /\ Referring(db.product, "category", {last.id}) # {}

\* the step deletes a category that a product references
DeleteOfReferencedCategory ==
    /\ last'.op = "DeleteCategory"
    /\ Referring(db.product, "category", {last'.id}) # {}

\* the delete went through: the category is gone, every product is still
\* there, those that referenced it with category = null and nothing else
\* changed, and no other table changed
CategoryDeletedProductsKept ==
    /\ last'.result = OK
    /\ db'.category = Remove(db.category, {last'.id})
    /\ DOMAIN db'.product = DOMAIN db.product
    /\ \A p \in DOMAIN db.product :
        db'.product[p] =
            IF db.product[p].category = last'.id
            THEN [db.product[p] EXCEPT !.category = NULL]
            ELSE db.product[p]
    /\ \A t \in TableNames \ {"category", "product"} : db'[t] = db[t]

\* C6 as stated: deleting a category that a product references succeeds and
\* leaves each such product in place with category = null
C6_Original == [][DeleteOfReferencedCategory => CategoryDeletedProductsKept]_vars

\* C6 as amended: deleting a category that a product references and that no
\* category has as its parent succeeds, and afterwards each such product
\* still exists with category = null and every other field, and all product
\* lines, unchanged; no product is deleted
C6_ReferencedCategoryDelete ==
    [][(/\ DeleteOfReferencedCategory
        /\ \A k \in DOMAIN db.category : db.category[k].parent # last'.id)
         => CategoryDeletedProductsKept]_vars

\* a category was deleted, and a product with a seasonal event and a
\* product line is there with no category
C6_Witness ==
    /\ last.op = "DeleteCategory"
    /\ last.result = OK
    /\ last.deleted = 1
    /\ \E p \in DOMAIN db.product :
        /\ db.product[p].category = NULL
        /\ db.product[p].seasonal_event # NULL
        /\ Referring(db.product_line, "product", {p}) # {}

----------------------------------------------------------------------------
(* Deletes under CASCADE: attributes, their values, and the product lines   *)
(* that carry them                                                          *)

NextCascade ==
    \/ \E id \in Ids, row \in AttributeRows : CreateAttribute(id, row)
    \/ \E id \in Ids : DeleteAttribute(id)
    \/ \E id \in Ids, row \in AttributeValueRows : CreateAttributeValue(id, row)
    \/ \E id \in Ids : DeleteAttributeValue(id)
    \/ \E id \in Ids, row \in OneProductRows : CreateProduct(id, row)
    \/ \E id \in Ids, row \in OneProductLineRows : CreateProductLine(id, row)
    \/ \E id \in Ids : DeleteProductLine(id)
    \/ \E id \in Ids, row \in ProductLineAttributeRows : CreateProductLineAttribute(id, row)
    \/ \E id \in Ids : DeleteProductLineAttribute(id)

SpecCascade == Init /\ [][NextCascade]_vars

\* the values of attribute a, and the join rows that reference one of vals
ValuesOf(a) == {v \in DOMAIN db.attribute_value : db.attribute_value[v].attribute = a}

JoinsOf(vals) ==
    {x \in DOMAIN db.product_line_attribute : db.product_line_attribute[x].value \in vals}

\* the step removed exactly the rows A of attribute, V of attribute_value
\* and J of product_line_attribute, and changed nothing else
RemovedExactly(A, V, J) ==
    /\ last'.result = OK
    /\ last'.deleted = Cardinality(A) + Cardinality(V) + Cardinality(J)
    /\ db'.attribute = Remove(db.attribute, A)
    /\ db'.attribute_value = Remove(db.attribute_value, V)
    /\ db'.product_line_attribute = Remove(db.product_line_attribute, J)
    /\ \A t \in TableNames \ {"attribute", "attribute_value", "product_line_attribute"} :
        db'[t] = db[t]

\* C7: a delete under a cascade rule succeeds and removes the row, all its
\* dependents and nothing else: deleting an attribute removes its values
\* and the ProductLineAttribute rows that reference them, deleting an
\* attribute value removes the rows that reference it; product lines, other
\* attributes and their values stay as they are
C7_AttributeCascade ==
    [][/\ last'.op = "DeleteAttribute" =>
            RemovedExactly({last'.id}, ValuesOf(last'.id), JoinsOf(ValuesOf(last'.id)))
       /\ last'.op = "DeleteAttributeValue" =>
            RemovedExactly({}, {last'.id}, JoinsOf({last'.id}))
      ]_vars

\* an attribute was deleted together with a value and a join row, and
\* another attribute, its value, the join row on it and the product line
\* are still there
C7_Witness ==
    /\ last.op = "DeleteAttribute"
    /\ last.result = OK
    /\ last.deleted = 3
    /\ db.attribute # Empty
    /\ \E x \in DOMAIN db.product_line_attribute :
        /\ db.product_line_attribute[x].value \in DOMAIN db.attribute_value
        /\ db.product_line_attribute[x].product_line \in DOMAIN db.product_line

----------------------------------------------------------------------------
(* The self-referencing models: Category and ProductType *)

NextTree ==
    \/ \E id \in Ids, row \in NamedCategoryRows : CreateCategory(id, row)
    \/ \E id \in Ids, row \in NamedCategoryRows : UpdateCategory(id, row)
    \/ \E id \in Ids : DeleteCategory(id)
    \/ \E id \in Ids, row \in ProductTypeRows : CreateProductType(id, row)
    \/ \E id \in Ids, row \in ProductTypeRows : UpdateProductType(id, row)
    \/ \E id \in Ids : DeleteProductType(id)

SpecTree == Init /\ [][NextTree]_vars

\* the rows reached from the rows S of t by following parent
RECURSIVE Above(_, _)
Above(t, S) ==
    LET more == S \cup {t[i].parent : i \in S \cap DOMAIN t}
    IN IF more = S THEN S ELSE Above(t, more)

\* the ancestors of row c of t: its parent, the parent of that, and so on
Ancestors(t, c) == Above(t, {t[c].parent})

\* C9: the parent references of Category form a tree: no category is its
\* own ancestor
C9_CategoryTree ==
    \A c \in DOMAIN db.category : c \notin Ancestors(db.category, c)

\* what holds instead: parent is mandatory, so a category table with a row
\* in it always has a category that is its own ancestor
CategoryTableEmptyOrCyclic ==
    db.category = Empty
    \/ \E c \in DOMAIN db.category : c \in Ancestors(db.category, c)

----------------------------------------------------------------------------
(* Concurrent writers.  A writer issues an INSERT of a row that is valid    *)
(* when it looks (Issue), and the database executes the INSERTs one at a    *)
(* time, in any order (Execute): the unique indexes are checked by the      *)
(* database as part of executing the statement.                             *)

InsertOp == [product_line |-> "CreateProductLine", product_image |-> "CreateProductImage"]

InsertRows == [product_line |-> ProductLineRows, product_image |-> ProductImageRows]

\* what the database answers to the INSERT of row into table t of d
InsertCheck(d, t, id, row) ==
    IF t = "product_line" THEN ProductLineCheck(d, id, row)
    ELSE ProductImageCheck(d, id, row)

\* writer w issues the INSERT of row into t; `checked` is what the writer
\* found when it looked for a conflicting row before issuing
Issue(w, t, row) ==
    /\ txn[w].state # "issued"
    /\ Resolves(IF t = "product_line" THEN db.product ELSE db.product_line,
                IF t = "product_line" THEN row.product ELSE row.product_line)
    /\ txn' = [txn EXCEPT ![w] =
                [state |-> "issued", table |-> t, row |-> row,
                 checked |-> InsertCheck(db, t, NULL, row)]]
    /\ UNCHANGED <<db, last>>

\* the outcome decided by what the writer saw when it issued the INSERT
\* (uniqueness validated by the application, no index in the database)
ExecuteResultAsChecked(d, tx, id) == tx.checked

\* the outcome of executing the INSERT tx: the database checks its indexes
\* against the rows it holds now
ExecuteResult(d, tx, id) == InsertCheck(d, tx.table, id, tx.row)

Execute(w) ==
    /\ txn[w].state = "issued"
    /\ \E id \in Ids :
        /\ IsNewId(db[txn[w].table], id)
        /\ LET res == ExecuteResult(db, txn[w], id)
           IN /\ db' = Apply(db, txn[w].table, id, txn[w].row, res)
              /\ last' = Call(InsertOp[txn[w].table], id, txn[w].row, res)
              /\ txn' = [txn EXCEPT ![w] =
                            [state |-> "done", table |-> txn[w].table,
                             row |-> txn[w].row, checked |-> txn[w].checked,
                             result |-> res]]

NextConcurrent ==
    \/ \E id \in Ids, row \in OneProductRows : CreateProduct(id, row)
    \/ \E w \in Writers, t \in DOMAIN InsertRows : \E row \in InsertRows[t] : Issue(w, t, row)
    \/ \E w \in Writers : Execute(w)

SpecConcurrent == Init /\ [][NextConcurrent]_vars

\* two INSERTs that cannot both be stored: two default images of one
\* product line, or two product lines with one sku
Conflicting(a, b) ==
    /\ a.table = b.table
    /\ IF a.table = "product_image"
       THEN /\ a.row.default_image /\ b.row.default_image
            /\ a.row.product_line = b.row.product_line
       ELSE a.row.sku = b.row.sku

\* C8: whatever the order in which the INSERTs of two writers are issued
\* and executed, of two conflicting INSERTs at most one succeeds and one is
\* rejected with UniquenessViolation, and no state holds two default images
\* of a product line or two product lines with the same sku
C8_ConcurrentInserts ==
    /\ \A v, w \in Writers :
        (v # w /\ txn[v].state = "done" /\ txn[w].state = "done"
            /\ Conflicting(txn[v], txn[w]))
        => /\ ~(txn[v].result = OK /\ txn[w].result = OK)
           /\ UniquenessViolation \in {txn[v].result, txn[w].result}
    /\ \A l \in Ids : Cardinality(DefaultImages(db, l)) <= 1
    /\ NoDuplicate(db, "product_line")

\* two writers each issued a default image for the same product line while
\* it had none; both INSERTs were executed, one was stored and the other
\* rejected
C8_Witness ==
    \E v, w \in Writers :
        /\ v # w /\ txn[v].state = "done" /\ txn[w].state = "done"
        /\ txn[v].table = "product_image"
        /\ Conflicting(txn[v], txn[w])
        /\ txn[v].checked = OK /\ txn[w].checked = OK
        /\ txn[v].result = OK /\ txn[w].result = UniquenessViolation

====
